---- MODULE Spec2Model ----
(***************************************************************************)
(* A model of package rules (src/rules/rules.go): the evaluation of a Go   *)
(* board after a stone has been placed.  Stones are records with the       *)
(* fields X, Y and Color of models.Stone; a board is a record with the     *)
(* fields Size, Stones (a sequence, as the Go slice) and LastTaker of      *)
(* models.Board; a String is a sequence of stones.                         *)
(*                                                                         *)
(* The functions of rules.go are operators, computed on sequences as the   *)
(* code computes them.  Three specifications apply them:                   *)
(*   Spec        a game: a stone is placed, Run is evaluated, the caller   *)
(*               undoes the placement or removes the returned Strings;     *)
(*   SpecBoards  getStrings on any board, its stones in any order;         *)
(*   SpecString  getString, iteration by iteration, from any stone of any  *)
(*               board, then findLiberties before and after a change of    *)
(*               one neighbouring point.                                   *)
(* The claims are stated against the rules of Go written on sets (Group,   *)
(* LibertyPoints), which share nothing with the operators of the code.     *)
(***************************************************************************)
EXTENDS Integers, Sequences, FiniteSets, TLC

VARIABLES
    board,      \* the *models.Board handed to the rules
    stone,      \* the stone just placed (Run), or the seed (getString)
    toRemove,   \* the list of Strings Run returned
    err,        \* the error Run returned
    pc,         \* where the caller stands
    acc,        \* getString: the work list
    str,        \* getString: the String built so far
    pushes,     \* getString: the number of stones pushed on the work list
    partition,  \* the list getStrings returned
    libs,       \* the count findLiberties returned for str
    relibs      \* the count findLiberties returned for str on the changed board

vars == <<board, stone, toRemove, err, pc, acc, str, pushes, partition, libs, relibs>>

\* ------------------------------------------------------------------ bounds

\* Largest board size played on (boards are Size x Size, Size in 1..MaxSize).
MaxSize == 2

\* Largest number of stones on a board before a stone is placed on it.
MaxStones == 3

\* ------------------------------------------------------------- data model

Black == "black"
White == "white"
Empty == ""

Colors == {Black, White}

\* models.Stone{X: x, Y: y, Color: c}
Stone(x, y, c) == [X |-> x, Y |-> y, Color |-> c]

\* The nil *models.Stone that find returns when no stone has the coordinates.
NoStone == [X |-> -1, Y |-> -1, Color |-> "nil"]

\* models.Board{Size: size, Stones: stones} (LastTaker is left at its zero value).
Board(size, stones) == [Size |-> size, Stones |-> stones, LastTaker |-> NoStone]

\* ------------------------------------------------------ rules.go: helpers

isInbounds(size, s) ==
    IF s.X < 0 \/ s.X >= size THEN FALSE
    ELSE IF s.Y < 0 \/ s.Y >= size THEN FALSE
    ELSE TRUE

\* The first stone of stones with the coordinates of s, or NoStone (nil).
RECURSIVE findFrom(_, _, _)
findFrom(stones, s, i) ==
    IF i > Len(stones) THEN NoStone
    ELSE IF stones[i].X = s.X /\ stones[i].Y = s.Y THEN stones[i]
    ELSE findFrom(stones, s, i + 1)

find(stones, s) == findFrom(stones, s, 1)

\* reflect.DeepEqual on two stones is equality of all their fields.
contains(list, item) == \E i \in 1..Len(list) : list[i] = item

\* containsString finding nothing: no String is recognised as already present.
containsString_Never(list, s) == FALSE

\* reflect.DeepEqual on two Strings: same length, same stones in the same order.
containsString(list, s) == \E i \in 1..Len(list) : list[i] = s

\* up, down, left, right of a stone, each with the zero (empty) color.
nearbyStones(s) ==
    << Stone(s.X, s.Y + 1, Empty), Stone(s.X, s.Y - 1, Empty),
       Stone(s.X - 1, s.Y, Empty), Stone(s.X + 1, s.Y, Empty) >>

resolveStone(b, s) ==
    LET existingStone == find(b.Stones, s)
    IN  IF existingStone # NoStone THEN existingStone ELSE s

getNearby(b, s) ==
    LET inb == SelectSeq(nearbyStones(s), LAMBDA n : isInbounds(b.Size, n))
    IN  [i \in 1..Len(inb) |-> resolveStone(b, inb[i])]

\* ---------------------------------------------------- rules.go: getString

\* accepts without the test of the color: any stone not yet in str is taken.
accepts_AnyColor(seed, s, sofar) == ~contains(sofar, s)

\* accepts without the test of str: a stone already taken is taken again.
accepts_Revisits(seed, s, sofar) == s.Color = seed.Color

\* Whether the popped stone s is appended to str (rules.go:99).
accepts(seed, s, sofar) == ~contains(sofar, s) /\ s.Color = seed.Color

\* One iteration of the loop of getString: pop the last stone of the work
\* list; if it is new and of the seed's color, append it and push its
\* neighbours.
getStringStep(b, seed, work, sofar) ==
    LET s    == work[Len(work)]
        rest == SubSeq(work, 1, Len(work) - 1)
    IN  IF accepts(seed, s, sofar)
        THEN [acc |-> rest \o getNearby(b, s), str |-> Append(sofar, s)]
        ELSE [acc |-> rest, str |-> sofar]

RECURSIVE getStringLoop(_, _, _, _)
getStringLoop(b, seed, work, sofar) ==
    IF Len(work) = 0 THEN sofar
    ELSE LET s    == work[Len(work)]
             rest == SubSeq(work, 1, Len(work) - 1)
         IN  IF accepts(seed, s, sofar)
             THEN getStringLoop(b, seed, rest \o getNearby(b, s), Append(sofar, s))
             ELSE getStringLoop(b, seed, rest, sofar)

getString(b, seed) == getStringLoop(b, seed, <<seed>>, <<>>)

\* --------------------------------------------------- rules.go: getStrings

\* The less function handed to sort.Slice: Y ascending, then X ascending.
less(a, c) ==
    IF a.Y < c.Y THEN TRUE
    ELSE IF a.Y > c.Y THEN FALSE
    ELSE a.X < c.X

\* s put into the sorted sequence sorted, before the first stone it is less than.
RECURSIVE insertSorted(_, _)
insertSorted(sorted, s) ==
    IF Len(sorted) = 0 THEN <<s>>
    ELSE IF less(s, sorted[1]) THEN <<s>> \o sorted
    ELSE <<sorted[1]>> \o insertSorted(Tail(sorted), s)

RECURSIVE sortFrom(_, _, _)
sortFrom(list, i, sorted) ==
    IF i > Len(list) THEN sorted
    ELSE sortFrom(list, i + 1, insertSorted(sorted, list[i]))

\* sortString leaving the stones in the order getString found them.
sortString_None(list) == list

\* sort.Slice(newString, less): the stones of list in the order of less.
sortString(list) == sortFrom(list, 1, <<>>)

\* The String of the i-th stone of the board, sorted.
newString(b, i) == sortString(getString(b, b.Stones[i]))

RECURSIVE getStringsFrom(_, _, _)
getStringsFrom(b, i, strings) ==
    IF i > Len(b.Stones) THEN strings
    ELSE LET ns == newString(b, i)
         IN  getStringsFrom(b, i + 1,
                 IF ~containsString(strings, ns) THEN Append(strings, ns) ELSE strings)

getStrings(b) == getStringsFrom(b, 1, <<>>)

\* ------------------------------------------------ rules.go: findLiberties

\* addLiberties with the test of the neighbour's color left out: every
\* neighbour counts as a liberty.
RECURSIVE addLiberties_AnyColor(_, _, _)
addLiberties_AnyColor(nearby, j, liberties) ==
    IF j > Len(nearby) THEN liberties
    ELSE addLiberties_AnyColor(nearby, j + 1,
             IF ~contains(liberties, nearby[j])
             THEN Append(liberties, nearby[j]) ELSE liberties)

\* addLiberties with the test of the color negated: the occupied neighbours
\* are counted.
RECURSIVE addLiberties_Occupied(_, _, _)
addLiberties_Occupied(nearby, j, liberties) ==
    IF j > Len(nearby) THEN liberties
    ELSE addLiberties_Occupied(nearby, j + 1,
             IF nearby[j].Color # Empty /\ ~contains(liberties, nearby[j])
             THEN Append(liberties, nearby[j]) ELSE liberties)

\* The liberties list after the neighbours nearby[j..] of one member.
RECURSIVE addLiberties(_, _, _)
addLiberties(nearby, j, liberties) ==
    IF j > Len(nearby) THEN liberties
    ELSE addLiberties(nearby, j + 1,
             IF nearby[j].Color = Empty /\ ~contains(liberties, nearby[j])
             THEN Append(liberties, nearby[j]) ELSE liberties)

RECURSIVE findLibertiesFrom(_, _, _, _)
findLibertiesFrom(b, s, i, liberties) ==
    IF i > Len(s) THEN liberties
    ELSE findLibertiesFrom(b, s, i + 1, addLiberties(getNearby(b, s[i]), 1, liberties))

\* The first result of findLiberties: the list of liberties.
findLiberties(b, s) == findLibertiesFrom(b, s, 1, <<>>)

\* The second result of findLiberties: len(liberties).
numLiberties(b, s) == Len(findLiberties(b, s))

\* ----------------------------------------------------------- rules.go: Run

\* A String with no liberties is to be removed (rules.go:30).
captured(b, s) == numLiberties(b, s) = 0

\* The Strings of strings with no liberties, in order (rules.go:27-33).
zeroLiberty(b, strings) == SelectSeq(strings, LAMBDA s : captured(b, s))

SelfCaptureError == "Move is suicidal"
NoError == "nil"

\* isSelfCapture without the test that the String holds the stone.
isSelfCapture_AnyString(rem, s) == Len(rem) = 1

\* The first branch of Run: one String to remove, and it holds the stone.
isSelfCapture(rem, s) == Len(rem) = 1 /\ contains(rem[1], s)

\* updatedRemove without the second branch: nothing is filtered out.
updatedRemove_NoFilter(rem, s) == rem

\* updatedRemove with the test negated: the Strings that hold the stone are kept.
updatedRemove_Inverted(rem, s) ==
    IF Len(rem) > 1 THEN SelectSeq(rem, LAMBDA t : contains(t, s)) ELSE rem

\* The second branch of Run: the Strings of rem that do not hold the stone.
updatedRemove(rem, s) ==
    IF Len(rem) > 1 THEN SelectSeq(rem, LAMBDA t : ~contains(t, s)) ELSE rem

Run(b, s) ==
    LET rem == zeroLiberty(b, getStrings(b))
    IN  IF isSelfCapture(rem, s)
        THEN [strings |-> <<>>, err |-> SelfCaptureError]
        ELSE [strings |-> updatedRemove(rem, s), err |-> NoError]

\* Run taking the stones of the Strings it returns off the board itself.
boardAfterRun_Removing(b, s) ==
    [b EXCEPT !.Stones =
        SelectSeq(@, LAMBDA t :
            ~(\E i \in 1..Len(Run(b, s).strings) : contains(Run(b, s).strings[i], t)))]

\* The board after Run has returned: Run assigns to no field of *board.
boardAfterRun(b, s) == b

\* ------------------------------------------------------------ the caller

Points(size) == { Stone(x, y, Empty) : x \in 0..(size - 1), y \in 0..(size - 1) }

\* The caller's collection of stones with s added; the collection is kept in
\* one fixed order (Y, then X).
withStone(list, s) == insertSorted(list, s)

\* The stones of list, each stone of the Strings of removed taken out.
withoutStrings(list, removed) ==
    SelectSeq(list, LAMBDA s : ~(\E i \in 1..Len(removed) : contains(removed[i], s)))

withoutStone(list, s) == SelectSeq(list, LAMBDA t : t # s)

\* ------------------------------------------------------ the game (Spec)

Init ==
    /\ board \in { Board(n, <<>>) : n \in 1..MaxSize }
    /\ stone = NoStone
    /\ toRemove = <<>>
    /\ err = NoError
    /\ pc = "idle"
    /\ acc = <<>>
    /\ str = <<>>
    /\ pushes = 0
    /\ partition = <<>>
    /\ libs = 0
    /\ relibs = 0

\* The caller places a stone of either color on an empty point.
AddStone ==
    /\ pc = "idle"
    /\ Len(board.Stones) <= MaxStones
    /\ \E p \in Points(board.Size), c \in Colors :
          /\ find(board.Stones, p) = NoStone
          /\ stone' = Stone(p.X, p.Y, c)
          /\ board' = [board EXCEPT !.Stones = withStone(@, stone')]
    /\ pc' = "placed"
    /\ UNCHANGED <<toRemove, err, acc, str, pushes, partition, libs, relibs>>

\* rules.Run on the board with the stone placed.
Evaluate ==
    /\ pc = "placed"
    /\ \E r \in {Run(board, stone)} :
          /\ toRemove' = r.strings
          /\ err' = r.err
    /\ board' = boardAfterRun(board, stone)
    /\ pc' = "evaluated"
    /\ UNCHANGED <<stone, acc, str, pushes, partition, libs, relibs>>

\* The caller rejects a suicidal move and leaves the board as it was.
Reject ==
    /\ pc = "evaluated"
    /\ err = SelfCaptureError
    /\ board' = [board EXCEPT !.Stones = withoutStone(@, stone)]
    /\ pc' = "idle"
    /\ UNCHANGED <<stone, toRemove, err, acc, str, pushes, partition, libs, relibs>>

\* The caller removes the stones of the returned Strings.
Remove ==
    /\ pc = "evaluated"
    /\ err = NoError
    /\ board' = [board EXCEPT !.Stones = withoutStrings(@, toRemove)]
    /\ pc' = "idle"
    /\ UNCHANGED <<stone, toRemove, err, acc, str, pushes, partition, libs, relibs>>

Next == AddStone \/ Evaluate \/ Reject \/ Remove

Spec == Init /\ [][Next]_vars

\* ------------------------------------------- the rules of Go, on sets

Range(list) == { list[i] : i \in 1..Len(list) }

Occupied(b) == Range(b.Stones)

\* Two points are adjacent when they differ by one step on one axis.
Adjacent(a, c) ==
    \/ a.X = c.X /\ (a.Y = c.Y + 1 \/ c.Y = a.Y + 1)
    \/ a.Y = c.Y /\ (a.X = c.X + 1 \/ c.X = a.X + 1)

\* G grown by the stones of all adjacent to it, until none is left.
RECURSIVE Grow(_, _)
Grow(G, all) ==
    LET more == { t \in all \ G : \E g \in G : Adjacent(g, t) }
    IN  IF more = {} THEN G ELSE Grow(G \cup more, all)

\* The maximal connected set of stones of the color of s that holds s.
Group(b, s) == Grow({s}, { t \in Occupied(b) : t.Color = s.Color })

Groups(b) == { Group(b, s) : s \in Occupied(b) }

\* The empty points of the board adjacent to a stone of G.
LibertyPoints(b, G) ==
    { p \in Points(b.Size) :
        /\ \A t \in Occupied(b) : t.X # p.X \/ t.Y # p.Y
        /\ \E g \in G : Adjacent(g, p) }

NoLiberty(b, G) == LibertyPoints(b, G) = {}

\* No group of the board is without liberties.
AllAlive(b) == \A G \in Groups(b) : ~NoLiberty(b, G)

\* ------------------------------------------------- claims on the game

\* The board before the stone was placed.
Before == Board(board.Size, withoutStone(board.Stones, stone))

\* The groups of the opposing color left without liberties by the placement.
OpposingCaptured ==
    { G \in Groups(board) : NoLiberty(board, G) /\ \A g \in G : g.Color # stone.Color }

\* The group of the stone placed.
OwnGroup == Group(board, stone)

Returned == { Range(toRemove[i]) : i \in 1..Len(toRemove) }

Evaluated == pc = "evaluated" /\ AllAlive(Before)

C2_SelfCapture ==
    Evaluated =>
        /\ (err = SelfCaptureError) <=>
               (NoLiberty(board, OwnGroup) /\ OpposingCaptured = {})
        /\ err = SelfCaptureError => toRemove = <<>>
        /\ err # SelfCaptureError => err = NoError

\* A suicidal placement was evaluated.
C2_Witness ==
    /\ Evaluated
    /\ board.Size > 1
    /\ NoLiberty(board, OwnGroup)
    /\ OpposingCaptured = {}
    /\ err = SelfCaptureError

\* The Strings Run finds without liberties (its toRemove before the branches).
Found == zeroLiberty(board, getStrings(board))

\* C7 (arbitration premise): when every String had a liberty before the
\* placement and Run finds more than one String without liberties, one of
\* them is of the opposing color, at most one is of the mover's color (the
\* one with the stone placed), and the list returned is not empty and holds
\* no String of the mover.
C7_ArbitrationPremise ==
    (Evaluated /\ Len(Found) > 1) =>
        /\ \E i \in 1..Len(Found) : Found[i][1].Color # stone.Color
        /\ \A i \in 1..Len(Found) :
               Found[i][1].Color = stone.Color => contains(Found[i], stone)
        /\ Cardinality({ i \in 1..Len(Found) : Found[i][1].Color = stone.Color }) <= 1
        /\ Len(toRemove) > 0
        /\ \A i \in 1..Len(toRemove) : toRemove[i][1].Color # stone.Color

\* Run found two Strings without liberties, one of them the mover's.
C7_Witness ==
    /\ Evaluated
    /\ Len(Found) > 1
    /\ \E i \in 1..Len(Found) : contains(Found[i], stone)
    /\ Len(toRemove) > 0

RECURSIVE putBack(_, _, _)
putBack(list, removed, i) ==
    IF i > Len(removed) THEN list
    ELSE putBack(list \o removed[i], removed, i + 1)

Evaluation == Board(board.Size, putBack(board.Stones, toRemove, 1))

\* C10 (game sequence): from the empty board, with each suicidal placement
\* undone and the stones of each returned list removed, no String of the
\* board between two moves is without liberties.
C10_AllAlive == pc = "idle" => AllAlive(board)

\* A move was applied whose own String had no liberties when Run was
\* evaluated, and was kept out of the returned list.
C10_Witness ==
    /\ pc = "idle"
    /\ err = NoError
    /\ Len(toRemove) > 0
    /\ stone \in Occupied(board)
    /\ NoLiberty(Evaluation, Group(Evaluation, stone))
    /\ ~NoLiberty(board, Group(board, stone))

\* ------------------------------------- board snapshots (SpecBoards)

\* The caller hands over a snapshot whose stones are in any order: stones
\* are appended one by one, on any empty point, in either color.
PutStone ==
    /\ pc = "idle"
    /\ Len(board.Stones) < MaxStones
    /\ \E p \in Points(board.Size), c \in Colors :
          /\ find(board.Stones, p) = NoStone
          /\ board' = [board EXCEPT !.Stones = Append(@, Stone(p.X, p.Y, c))]
    /\ UNCHANGED <<stone, toRemove, err, pc, acc, str, pushes, partition, libs, relibs>>

\* getStrings on the snapshot.
Partition ==
    /\ pc = "idle"
    /\ partition' = getStrings(board)
    /\ pc' = "partitioned"
    /\ UNCHANGED <<board, stone, toRemove, err, acc, str, pushes, libs, relibs>>

NextBoards == PutStone \/ Partition

SpecBoards == Init /\ [][NextBoards]_vars

\* C3 (partition completeness): the Strings getStrings returns cover the
\* stones of the board exactly, no coordinate is in two of them or twice in
\* one, and no String is returned twice.
C3_Partition ==
    pc = "partitioned" =>
        /\ UNION { Range(partition[i]) : i \in 1..Len(partition) } = Occupied(board)
        /\ \A i, j \in 1..Len(partition) :
               i # j =>
                   /\ partition[i] # partition[j]
                   /\ \A a \in Range(partition[i]), c \in Range(partition[j]) :
                          a.X # c.X \/ a.Y # c.Y
        /\ \A i \in 1..Len(partition) :
               \A k, l \in 1..Len(partition[i]) :
                   k # l => partition[i][k].X # partition[i][l].X
                            \/ partition[i][k].Y # partition[i][l].Y

\* A board of three stones was partitioned into a String of two stones,
\* found from each of its two stones, and a String of one.
C3_Witness ==
    /\ pc = "partitioned"
    /\ Len(board.Stones) = 3
    /\ Len(partition) = 2
    /\ \E i \in 1..Len(partition) : Len(partition[i]) = 2

\* The stones of the set S in the order Y, then X.
RECURSIVE InOrder(_)
InOrder(S) ==
    IF S = {} THEN <<>>
    ELSE LET m == CHOOSE a \in S :
                      \A c \in S : a.Y < c.Y \/ (a.Y = c.Y /\ a.X <= c.X)
         IN  <<m>> \o InOrder(S \ {m})

\* C5 (idempotence of detection): every String getStrings returns is sorted
\* by Y, then X, and the set of Strings returned is the one returned for the
\* same stones in any other order (here: in the order Y, then X).
C5_OrderIndependent ==
    pc = "partitioned" =>
        /\ \A i \in 1..Len(partition) :
               \A k \in 1..(Len(partition[i]) - 1) :
                   \/ partition[i][k].Y < partition[i][k + 1].Y
                   \/ /\ partition[i][k].Y = partition[i][k + 1].Y
                      /\ partition[i][k].X < partition[i][k + 1].X
        /\ Range(partition) =
               Range(getStrings(Board(board.Size, InOrder(Occupied(board)))))

\* A board whose stones are not in the order Y, then X was partitioned, and
\* one of its Strings has two stones or more.
C5_Witness ==
    /\ pc = "partitioned"
    /\ board.Stones # InOrder(Occupied(board))
    /\ \E i \in 1..Len(partition) :
          /\ Len(partition[i]) > 1
          /\ getString(board, partition[i][1]) # partition[i]

\* ------------------------------ one String of a board (SpecString)

\* The caller hands over any board: stones are set on any empty point, in
\* either color (the collection is kept in the order Y, then X).
SetStone ==
    /\ pc = "idle"
    /\ Len(board.Stones) < MaxStones
    /\ \E p \in Points(board.Size), c \in Colors :
          /\ find(board.Stones, p) = NoStone
          /\ board' = [board EXCEPT !.Stones = withStone(@, Stone(p.X, p.Y, c))]
    /\ UNCHANGED <<stone, toRemove, err, pc, acc, str, pushes, partition, libs, relibs>>

\* getString is entered with a stone of the board: the seed is pushed.
Enter ==
    /\ pc = "idle"
    /\ \E i \in 1..Len(board.Stones) : stone' = board.Stones[i]
    /\ acc' = <<stone'>>
    /\ str' = <<>>
    /\ pushes' = 1
    /\ pc' = "loop"
    /\ UNCHANGED <<board, toRemove, err, partition, libs, relibs>>

\* One iteration of the loop of getString.
Step ==
    /\ pc = "loop"
    /\ Len(acc) > 0
    /\ \E r \in {getStringStep(board, stone, acc, str)} :
          /\ acc' = r.acc
          /\ str' = r.str
          /\ pushes' = pushes + (Len(r.acc) - (Len(acc) - 1))
    /\ UNCHANGED <<board, stone, toRemove, err, pc, partition, libs, relibs>>

\* The work list is empty: getString returns str.
Return ==
    /\ pc = "loop"
    /\ Len(acc) = 0
    /\ pc' = "returned"
    /\ UNCHANGED <<board, stone, toRemove, err, acc, str, pushes, partition, libs, relibs>>

\* The String is sorted (as getStrings does) and its liberties are counted.
Count ==
    /\ pc = "returned"
    /\ str' = sortString(str)
    /\ libs' = numLiberties(board, str')
    /\ pc' = "counted"
    /\ UNCHANGED <<board, stone, toRemove, err, acc, pushes, partition, relibs>>

\* The points next to a member of the String s.
NextTo(s, p) == \E i \in 1..Len(s) : Adjacent(s[i], p)

\* A stone next to a member of the String is taken off the board, and the
\* liberties of the same list of members are counted again.
Vacate ==
    /\ pc = "counted"
    /\ \E i \in 1..Len(board.Stones) :
          /\ NextTo(str, board.Stones[i])
          /\ board' = [board EXCEPT !.Stones = withoutStone(@, board.Stones[i])]
    /\ relibs' = numLiberties(board', str)
    /\ pc' = "vacated"
    /\ UNCHANGED <<stone, toRemove, err, acc, str, pushes, partition, libs>>

\* A stone is set on an empty point next to a member of the String, and the
\* liberties of the same list of members are counted again.
Occupy ==
    /\ pc = "counted"
    /\ \E p \in Points(board.Size), c \in Colors :
          /\ find(board.Stones, p) = NoStone
          /\ NextTo(str, p)
          /\ board' = [board EXCEPT !.Stones = withStone(@, Stone(p.X, p.Y, c))]
    /\ relibs' = numLiberties(board', str)
    /\ pc' = "occupied"
    /\ UNCHANGED <<stone, toRemove, err, acc, str, pushes, partition, libs>>

NextString == SetStone \/ Enter \/ Step \/ Return \/ Count \/ Vacate \/ Occupy

\* getString runs to its end once entered: its loop has no blocking step.
SpecString ==
    Init /\ [][NextString]_vars /\ WF_vars(Step) /\ WF_vars(Return)

\* C8 (group detection): getString returns exactly the stones connected to
\* the seed through adjacent stones of the seed's color: the seed is among
\* them, all are stones of the board of the seed's color, no coordinate
\* occurs twice, and every stone of that color next to a member is a member.
C8_GroupDetected ==
    pc = "returned" =>
        /\ Range(str) = Group(board, stone)
        /\ str = getString(board, stone)
        /\ stone \in Range(str)
        /\ \A m \in Range(str) : m \in Occupied(board) /\ m.Color = stone.Color
        /\ \A k, l \in 1..Len(str) :
               k # l => str[k].X # str[l].X \/ str[k].Y # str[l].Y
        /\ \A m \in Range(str), t \in Occupied(board) :
               (Adjacent(m, t) /\ t.Color = stone.Color) => t \in Range(str)

\* getString returned a String of two stones or more that has an opposing
\* stone and an empty point next to it.
C8_Witness ==
    /\ pc = "returned"
    /\ Len(str) > 1
    /\ \E t \in Occupied(board) : t.Color # stone.Color /\ NextTo(str, t)
    /\ LibertyPoints(board, Range(str)) # {}

\* The number of stones of the board of the seed's color.
SameColor == Cardinality({ t \in Occupied(board) : t.Color = stone.Color })

\* The pushes on the work list stay within 1 + 4 for each member, and no
\* coordinate is a member twice.
PushBound ==
    pc \in {"loop", "returned"} =>
        /\ pushes <= 1 + 4 * Len(str)
        /\ Len(str) <= SameColor
        /\ pushes <= 1 + 4 * SameColor
        /\ Cardinality({ <<str[k].X, str[k].Y>> : k \in 1..Len(str) }) = Len(str)

\* C9 (termination): once entered, the loop of getString empties its work
\* list and returns; no coordinate is added twice and the number of pushes
\* is at most 1 + 4 times the number of stones of the seed's color.
C9_Terminates == [](PushBound) /\ ((pc = "loop") ~> (pc = "returned"))

\* getString returned after walking a String of two stones or more, having
\* pushed more stones than the board holds.
C9_Witness ==
    /\ pc = "returned"
    /\ Len(str) > 1
    /\ pushes > Len(board.Stones)

\* C4 (liberty monotonicity): for a fixed list of members, taking a stone
\* next to a member off the board does not lower the count of
\* findLiberties, and setting a stone on an empty point next to a member
\* does not raise it.
C4_LibertyMonotone ==
    /\ pc = "vacated" => relibs >= libs
    /\ pc = "occupied" => relibs <= libs

\* A neighbour of a String of two stones or more was taken off the board,
\* and the String has one liberty more.
C4_Witness ==
    /\ pc = "vacated"
    /\ Len(str) > 1
    /\ relibs = libs + 1

====
